---------------------------- MODULE Spec2Model ----------------------------
(***************************************************************************)
(* A model of ring_buffer.c: the byte ring buffer (ring_buffer_init,       *)
(* ring_buffer_put, ring_buffer_get, ring_buffer_full, ring_buffer_empty)  *)
(* and the UART receive interrupt that feeds it.                           *)
(*                                                                         *)
(* The cursors head and tail are C "unsigned int": here they are           *)
(* CursorBits wide and every operation on them is taken modulo             *)
(* 2^CursorBits.  ring_buffer_put and ring_buffer_get are modelled one     *)
(* memory access per step; the specifications differ only in how the       *)
(* steps of the producer and of the consumer may interleave.               *)
(***************************************************************************)
EXTENDS Integers, Sequences, FiniteSets, TLC

\* Width of "unsigned int" in the model (32 on the usual targets).
CursorBits == 3

\* Largest n_elem a caller passes to ring_buffer_init in the model.
MaxCap == 4

\* #define RING_BUFFER_SIZE 8: the length of RingBufferMemory.
RING_BUFFER_SIZE == 8

\* Unsigned arithmetic wraps modulo UintMod.
UintMod == 2 ^ CursorBits

\* The byte values that travel through the buffer in the model.
Bytes == {65, 255}

\* A C null pointer, and the address of the static array RingBufferMemory.
NULL == "NULL"

MEM == "RingBufferMemory"

\* The values of ring_buffer_init's argument: a null pointer, or a pointer to
\* a struct ringbuffer_attribute {n_elem, buffer}.
NullAttr == [isnull |-> TRUE, n_elem |-> 0, buffer |-> NULL]

Attrs ==
  {NullAttr} \cup
  {[isnull |-> FALSE, n_elem |-> n, buffer |-> b] :
      n \in 0 .. (IF MaxCap < UintMod THEN MaxCap ELSE UintMod - 1),
      b \in {NULL, MEM}}

-----------------------------------------------------------------------------
(* Unsigned integer arithmetic *)

\* a - b on unsigned int.
USub_nowrap(a, b) == IF a >= b THEN a - b ELSE 0

USub(a, b) == (a - b + UintMod) % UintMod

\* c++ on unsigned int: the value stored.
IncCursor_two(c) == (c + 2) % UintMod

IncCursor(c) == (c + 1) % UintMod

\* a & b on unsigned int.
RECURSIVE BitAnd(_, _)
BitAnd(a, b) ==
  IF a = 0 \/ b = 0
    THEN 0
    ELSE (a % 2) * (b % 2) + 2 * BitAnd(a \div 2, b \div 2)

-----------------------------------------------------------------------------
(* The pure parts of the ring buffer functions *)

\* ring_buffer_full: ((rbp->head - rbp->tail) == rbp->n_elem) ? 1 : 0
ring_buffer_full_reserve(h, t, n) ==
  IF BitAnd(IncCursor(h), USub(n, 1)) = BitAnd(t, USub(n, 1)) THEN 1 ELSE 0

ring_buffer_full_late(h, t, n) == IF USub(h, t) = IncCursor(n) THEN 1 ELSE 0

ring_buffer_full(h, t, n) == IF USub(h, t) = n THEN 1 ELSE 0

\* ring_buffer_empty: ((rbp->head - rbp->tail) == 0U) ? 1 : 0
ring_buffer_empty_le(h, t) == IF h <= t THEN 1 ELSE 0

ring_buffer_empty(h, t) == IF USub(h, t) = 0 THEN 1 ELSE 0

\* The slot a cursor selects: cursor & (n_elem - 1).
Offset_mask2(c, n) == BitAnd(c, USub(n, 2))

Offset(c, n) == BitAnd(c, USub(n, 1))

\* ring_buffer_init's test of the size: ((attr->n_elem - 1) & attr->n_elem) == 0
size_ok_nonzero(n) == n # 0

size_ok(n) == BitAnd(USub(n, 1), n) = 0

\* The value ring_buffer_init returns for an argument.
init_err_codes(a) ==
  IF ~a.isnull
    THEN IF a.buffer # NULL
           THEN (IF size_ok(a.n_elem) THEN 0 ELSE -2)
           ELSE -1
    ELSE -1

init_err(a) ==
  IF ~a.isnull
    THEN IF a.buffer # NULL
           THEN (IF size_ok(a.n_elem) THEN 0 ELSE -1)
           ELSE -1
    ELSE -1

\* The order of the statements of ring_buffer_put's body once the buffer was
\* found not full: offset, memcpy, head++ (a read and a write), return.
put_next_inc_first(pc) ==
  CASE pc = "p_off" -> "p_inc_rd"
    [] pc = "p_inc_rd" -> "p_inc_wr"
    [] pc = "p_inc_wr" -> "p_copy"
    [] pc = "p_copy" -> "p_ret"

put_next(pc) ==
  CASE pc = "p_off" -> "p_copy"
    [] pc = "p_copy" -> "p_inc_rd"
    [] pc = "p_inc_rd" -> "p_inc_wr"
    [] pc = "p_inc_wr" -> "p_ret"

\* The order of the statements of ring_buffer_get's body once the buffer was
\* found not empty: offset, memcpy, tail++ (a read and a write), return.
get_next_inc_first(pc) ==
  CASE pc = "g_off" -> "g_inc_rd"
    [] pc = "g_inc_rd" -> "g_inc_wr"
    [] pc = "g_inc_wr" -> "g_copy"
    [] pc = "g_copy" -> "g_ret"

get_next(pc) ==
  CASE pc = "g_off" -> "g_copy"
    [] pc = "g_copy" -> "g_inc_rd"
    [] pc = "g_inc_rd" -> "g_inc_wr"
    [] pc = "g_inc_wr" -> "g_ret"

-----------------------------------------------------------------------------
(* The state *)

VARIABLES
  head,       \* ringbuffer.head
  tail,       \* ringbuffer.tail
  n_elem,     \* ringbuffer.n_elem
  buf,        \* ringbuffer.buf: NULL or the address of RingBufferMemory
  mem,        \* RingBufferMemory[RING_BUFFER_SIZE]
  ReadInterruptControlFlag,
  UARTIN,
  gdata,      \* the byte ring_buffer_get's argument points to
  last,       \* the call that returned last: its name, result and argument
  ppc,        \* where the producer is inside ring_buffer_put
  p_src,      \* what put's argument points to: "arg" (a byte of the caller) or "UARTIN"
  p_arg,      \* the caller's byte when p_src = "arg"
  p_head,     \* the producer's last read of head
  p_tail,     \* the producer's last read of tail
  p_off,      \* put's local offset
  p_byte,     \* the byte put's memcpy copied
  cpc,        \* where the consumer is inside ring_buffer_get
  c_head,     \* the consumer's last read of head
  c_tail,     \* the consumer's last read of tail
  c_off,      \* get's local offset
  entry,      \* head, tail, mem and gdata when the running call began
  pending,    \* the bytes accepted by put and not yet taken by get, oldest first
  popped,     \* the byte the last successful get took from pending
  ref,        \* the contents of a reference FIFO queue of capacity n_elem
  ref_last,   \* what the reference queue answered to the last call
  puts_minus_gets,  \* successful puts minus successful gets since init
  init_results,     \* the (cause, value) pairs ring_buffer_init was seen to return
  WriteInterruptControlFlag,
  UARTOUT,
  tpc,        \* where the caller is inside uart_putchar
  t_c,        \* uart_putchar's argument c
  upc,        \* where the caller is inside uart_getchar
  char_signed \* whether plain char is a signed type in this build

ring == <<head, tail, n_elem, buf, mem>>

uart == <<ReadInterruptControlFlag, UARTIN>>

p_locals == <<p_src, p_arg, p_head, p_tail, p_off, p_byte>>

c_locals == <<c_head, c_tail, c_off>>

ghosts == <<pending, popped, ref, ref_last, puts_minus_gets>>

tx == <<WriteInterruptControlFlag, UARTOUT, tpc, t_c>>

ext == <<tx, upc, char_signed>>

vars ==
  <<ring, uart, gdata, last, ppc, p_locals, cpc, c_locals, entry, ghosts,
    init_results, ext>>

\* What a call records of the state it starts in.
Snapshot ==
  [head |-> head, tail |-> tail, mem |-> mem, gdata |-> gdata,
   flag |-> ReadInterruptControlFlag, uartin |-> UARTIN]

Result(op, err) == [op |-> op, err |-> err, attr |-> NullAttr]

\* The state of the program when main starts: statics are zero.
Statics ==
  /\ head = 0
  /\ tail = 0
  /\ n_elem = 0
  /\ buf = NULL
  /\ mem = [i \in 0 .. RING_BUFFER_SIZE - 1 |-> 0]
  /\ ReadInterruptControlFlag = 0
  /\ UARTIN = 0
  /\ gdata = 255
  /\ last = Result("none", 0)
  /\ ppc = "idle"
  /\ p_src = "arg"
  /\ p_arg = 0
  /\ p_head = 0
  /\ p_tail = 0
  /\ p_off = 0
  /\ p_byte = 0
  /\ cpc = "idle"
  /\ c_head = 0
  /\ c_tail = 0
  /\ c_off = 0
  /\ entry = [head |-> 0, tail |-> 0,
              mem |-> [i \in 0 .. RING_BUFFER_SIZE - 1 |-> 0], gdata |-> 255,
              flag |-> 0, uartin |-> 0]
  /\ pending = <<>>
  /\ popped = -1
  /\ ref = <<>>
  /\ ref_last = [err |-> 0, val |-> 0]
  /\ puts_minus_gets = 0
  /\ init_results = {}
  /\ WriteInterruptControlFlag = 0
  /\ UARTOUT = 0
  /\ tpc = "idle"
  /\ t_c = 0
  /\ upc = "idle"

\* Spec, SpecPreempt and SpecInit start here. They never call uart_getchar,
\* the only place where the signedness of char matters.
Init == Statics /\ char_signed = TRUE

\* The specifications that call uart_getchar start here: char is signed in
\* some builds and unsigned in others.
InitBuild == Statics /\ char_signed \in BOOLEAN

-----------------------------------------------------------------------------
(* ring_buffer_init *)

ring_buffer_init_reset(a) ==
  /\ last' = [op |-> "init", err |-> init_err(a), attr |-> a]
  /\ head' = 0
  /\ tail' = 0
  /\ pending' = <<>>
  /\ ref' = <<>>
  /\ puts_minus_gets' = 0
  /\ IF init_err(a) = 0
       THEN buf' = a.buffer /\ n_elem' = a.n_elem
       ELSE UNCHANGED <<buf, n_elem>>
  /\ UNCHANGED <<mem, popped, ref_last>>
  /\ UNCHANGED <<uart, gdata, ppc, p_locals, cpc, c_locals, entry, ext>>

ring_buffer_init(a) ==
  /\ last' = [op |-> "init", err |-> init_err(a), attr |-> a]
  /\ IF init_err(a) = 0
       THEN /\ head' = 0
            /\ tail' = 0
            /\ buf' = a.buffer
            /\ n_elem' = a.n_elem
            /\ pending' = <<>>
            /\ ref' = <<>>
            /\ puts_minus_gets' = 0
            /\ UNCHANGED <<mem, popped, ref_last>>
       ELSE UNCHANGED <<ring, ghosts>>
  /\ UNCHANGED <<uart, gdata, ppc, p_locals, cpc, c_locals, entry, ext>>

InitCall == \E a \in Attrs : ring_buffer_init(a) /\ UNCHANGED init_results

-----------------------------------------------------------------------------
(* ring_buffer_put, one access to head, tail or the storage per step *)

\* The byte put's argument points to now.
PutSource == IF p_src = "UARTIN" THEN UARTIN ELSE p_arg

\* A caller calls ring_buffer_put with a pointer to a byte d of its own.
PutCall(d) ==
  /\ ppc = "idle"
  /\ ppc' = "p_full"
  /\ p_src' = "arg"
  /\ p_arg' = d
  /\ UNCHANGED <<ring, uart, gdata, last, p_head, p_tail, p_off, p_byte, cpc,
                 c_locals, pending, popped, puts_minus_gets, init_results, ext>>

\* ring_buffer_full's reads of head and tail, in either order.
PutFullReadHead ==
  /\ ppc \in {"p_full", "p_full_t"}
  /\ p_head' = head
  /\ ppc' = IF ppc = "p_full" THEN "p_full_h" ELSE "p_test"
  /\ UNCHANGED <<ring, uart, gdata, last, p_src, p_arg, p_tail, p_off, p_byte,
                 cpc, c_locals, entry, ghosts, init_results, ext>>

PutFullReadTail ==
  /\ ppc \in {"p_full", "p_full_h"}
  /\ p_tail' = tail
  /\ ppc' = IF ppc = "p_full" THEN "p_full_t" ELSE "p_test"
  /\ UNCHANGED <<ring, uart, gdata, last, p_src, p_arg, p_head, p_off, p_byte,
                 cpc, c_locals, entry, ghosts, init_results, ext>>

\* if (ring_buffer_full(&ringbuffer) == 0): full, so return err = -1.
PutFail ==
  /\ ppc = "p_test"
  /\ ring_buffer_full(p_head, p_tail, n_elem) # 0
  /\ ppc' = "idle"
  /\ last' = Result("put", -1)
  /\ p_src' = "arg"
  /\ p_arg' = 0
  /\ p_head' = 0
  /\ p_tail' = 0
  /\ UNCHANGED <<ring, uart, gdata, p_off, p_byte, cpc, c_locals, entry, ghosts,
                 init_results, ext>>

\* not full: enter the body.
PutEnter ==
  /\ ppc = "p_test"
  /\ ring_buffer_full(p_head, p_tail, n_elem) = 0
  /\ ppc' = "p_off"
  /\ p_head' = 0
  /\ p_tail' = 0
  /\ UNCHANGED <<ring, uart, gdata, last, p_src, p_arg, p_off, p_byte, cpc,
                 c_locals, entry, ghosts, init_results, ext>>

\* const uint offset = (ringbuffer.head & (ringbuffer.n_elem - 1));
PutOffset ==
  /\ ppc = "p_off"
  /\ p_off' = Offset(head, n_elem)
  /\ ppc' = put_next(ppc)
  /\ UNCHANGED <<ring, uart, gdata, last, p_src, p_arg, p_head, p_tail, p_byte,
                 cpc, c_locals, entry, ghosts, init_results, ext>>

\* memcpy(&(ringbuffer.buf[offset]), data, sizeof(*data));
\* (buf is not NULL here: as long as it is, n_elem is 0 and the buffer full.)
PutCopy ==
  /\ ppc = "p_copy"
  /\ buf = MEM
  /\ mem' = [mem EXCEPT ![p_off] = PutSource]
  /\ p_byte' = PutSource
  /\ ppc' = put_next(ppc)
  /\ UNCHANGED <<head, tail, n_elem, buf, uart, gdata, last, p_src, p_arg,
                 p_head, p_tail, p_off, cpc, c_locals, entry, ghosts,
                 init_results, ext>>

\* ringbuffer.head++: the read.
PutIncRead ==
  /\ ppc = "p_inc_rd"
  /\ p_head' = head
  /\ ppc' = put_next(ppc)
  /\ UNCHANGED <<ring, uart, gdata, last, p_src, p_arg, p_tail, p_off, p_byte,
                 cpc, c_locals, entry, ghosts, init_results, ext>>

\* ringbuffer.head++: the write. The byte is accepted.
PutIncWrite ==
  /\ ppc = "p_inc_wr"
  /\ head' = IncCursor(p_head)
  /\ pending' = Append(pending, p_byte)
  /\ puts_minus_gets' = puts_minus_gets + 1
  /\ ppc' = put_next(ppc)
  /\ UNCHANGED <<tail, n_elem, buf, mem, uart, gdata, last, p_locals, cpc,
                 c_locals, entry, popped, ref, ref_last, init_results, ext>>

\* err = 0; return err;
PutRet ==
  /\ ppc = "p_ret"
  /\ ppc' = "idle"
  /\ last' = Result("put", 0)
  /\ p_src' = "arg"
  /\ p_arg' = 0
  /\ p_head' = 0
  /\ p_tail' = 0
  /\ p_off' = 0
  /\ p_byte' = 0
  /\ UNCHANGED <<ring, uart, gdata, cpc, c_locals, entry, ghosts, init_results, ext>>

-----------------------------------------------------------------------------
(* ring_buffer_get, one access to head, tail or the storage per step *)

\* A caller calls ring_buffer_get with a pointer to its byte gdata.
GetCall ==
  /\ cpc = "idle"
  /\ cpc' = "g_empty"
  /\ UNCHANGED <<ring, uart, gdata, last, ppc, p_locals, c_locals, pending,
                 popped, puts_minus_gets, init_results, ext>>

\* ring_buffer_empty's reads of head and tail, in either order.
GetEmptyReadHead ==
  /\ cpc \in {"g_empty", "g_empty_t"}
  /\ c_head' = head
  /\ cpc' = IF cpc = "g_empty" THEN "g_empty_h" ELSE "g_test"
  /\ UNCHANGED <<ring, uart, gdata, last, ppc, p_locals, c_tail, c_off, entry,
                 ghosts, init_results, ext>>

GetEmptyReadTail ==
  /\ cpc \in {"g_empty", "g_empty_h"}
  /\ c_tail' = tail
  /\ cpc' = IF cpc = "g_empty" THEN "g_empty_t" ELSE "g_test"
  /\ UNCHANGED <<ring, uart, gdata, last, ppc, p_locals, c_head, c_off, entry,
                 ghosts, init_results, ext>>

\* if (ring_buffer_empty(&ringbuffer) == 0): empty, so return err = -1.
GetFail ==
  /\ cpc = "g_test"
  /\ ring_buffer_empty(c_head, c_tail) # 0
  /\ cpc' = "idle"
  /\ last' = Result("get", -1)
  /\ c_head' = 0
  /\ c_tail' = 0
  /\ UNCHANGED <<ring, uart, gdata, ppc, p_locals, c_off, entry, ghosts,
                 init_results, ext>>

\* not empty: enter the body.
GetEnter ==
  /\ cpc = "g_test"
  /\ ring_buffer_empty(c_head, c_tail) = 0
  /\ cpc' = "g_off"
  /\ c_head' = 0
  /\ c_tail' = 0
  /\ UNCHANGED <<ring, uart, gdata, last, ppc, p_locals, c_off, entry, ghosts,
                 init_results, ext>>

\* const uint offset = (ringbuffer.tail & (ringbuffer.n_elem - 1));
GetOffset ==
  /\ cpc = "g_off"
  /\ c_off' = Offset(tail, n_elem)
  /\ cpc' = get_next(cpc)
  /\ UNCHANGED <<ring, uart, gdata, last, ppc, p_locals, c_head, c_tail, entry,
                 ghosts, init_results, ext>>

\* memcpy(data, &(ringbuffer.buf[offset]), sizeof(*data));
\* (buf is not NULL here: as long as it is, head = tail and the buffer empty.)
GetCopy ==
  /\ cpc = "g_copy"
  /\ buf = MEM
  /\ gdata' = mem[c_off]
  /\ cpc' = get_next(cpc)
  /\ UNCHANGED <<ring, uart, last, ppc, p_locals, c_locals, entry, ghosts,
                 init_results, ext>>

\* ringbuffer.tail++: the read.
GetIncRead ==
  /\ cpc = "g_inc_rd"
  /\ c_tail' = tail
  /\ cpc' = get_next(cpc)
  /\ UNCHANGED <<ring, uart, gdata, last, ppc, p_locals, c_head, c_off, entry,
                 ghosts, init_results, ext>>

\* ringbuffer.tail++: the write. The oldest pending byte is taken.
GetIncWrite ==
  /\ cpc = "g_inc_wr"
  /\ tail' = IncCursor(c_tail)
  /\ popped' = IF pending # <<>> THEN Head(pending) ELSE -1
  /\ pending' = IF pending # <<>> THEN Tail(pending) ELSE pending
  /\ puts_minus_gets' = puts_minus_gets - 1
  /\ cpc' = get_next(cpc)
  /\ UNCHANGED <<head, n_elem, buf, mem, uart, gdata, last, ppc, p_locals,
                 c_locals, entry, ref, ref_last, init_results, ext>>

\* err = 0; return err;
GetRet ==
  /\ cpc = "g_ret"
  /\ cpc' = "idle"
  /\ last' = Result("get", 0)
  /\ c_head' = 0
  /\ c_tail' = 0
  /\ c_off' = 0
  /\ UNCHANGED <<ring, uart, gdata, ppc, p_locals, entry, ghosts, init_results, ext>>

-----------------------------------------------------------------------------
(* The UART receive side *)

\* The hardware receives a byte: it is in UARTIN and the interrupt is raised
\* (main: UARTIN += 1; ReadInterruptControlFlag = 1).
HwReceive ==
  \E b \in Bytes :
    /\ UARTIN' = b
    /\ ReadInterruptControlFlag' = 1
    /\ UNCHANGED <<ring, gdata, last, ppc, p_locals, cpc, c_locals, entry,
                   ghosts, init_results, ext>>

\* UART_READ_interrupt with the flag set: clear it and call
\* ring_buffer_put(UART_READ_ADDR).
UART_READ_interrupt_keepflag ==
  /\ ppc = "idle"
  /\ ReadInterruptControlFlag # 0
  /\ ppc' = "p_full"
  /\ p_src' = "UARTIN"
  /\ p_arg' = 0
  /\ UNCHANGED <<ring, uart, gdata, last, p_head, p_tail, p_off, p_byte, cpc,
                 c_locals, pending, popped, puts_minus_gets, init_results, ext>>

UART_READ_interrupt ==
  /\ ppc = "idle"
  /\ ReadInterruptControlFlag # 0
  /\ ReadInterruptControlFlag' = 0
  /\ ppc' = "p_full"
  /\ p_src' = "UARTIN"
  /\ p_arg' = 0
  /\ UNCHANGED <<ring, UARTIN, gdata, last, p_head, p_tail, p_off, p_byte, cpc,
                 c_locals, pending, popped, puts_minus_gets, init_results, ext>>

-----------------------------------------------------------------------------
(* The specifications *)

\* No call is running.
Quiet == ppc = "idle" /\ cpc = "idle"

\* What a reference FIFO queue of capacity n_elem answers to put(d) and to
\* get(): it is asked when the call starts.
RefPut(d) ==
  /\ ref' = IF Len(ref) < n_elem THEN Append(ref, d) ELSE ref
  /\ ref_last' = [err |-> IF Len(ref) < n_elem THEN 0 ELSE -1, val |-> 0]

RefGet ==
  /\ ref' = IF ref # <<>> THEN Tail(ref) ELSE ref
  /\ ref_last' = IF ref # <<>>
                   THEN [err |-> 0, val |-> Head(ref)]
                   ELSE [err |-> -1, val |-> 0]

\* A call of the sequential specification: it starts when no call is running,
\* the state it starts in is recorded and the reference queue is asked.
SeqPut == \E d \in Bytes : Quiet /\ PutCall(d) /\ entry' = Snapshot /\ RefPut(d)

SeqGet == Quiet /\ GetCall /\ entry' = Snapshot /\ RefGet

\* The same calls where entry and the reference queue are not kept.
Unobserved == UNCHANGED <<entry, ref, ref_last>>

\* Spec: the calls of ring_buffer_init, ring_buffer_put and ring_buffer_get
\* run one after the other, each to completion.
Next ==
  \/ Quiet /\ InitCall
  \/ SeqPut
  \/ SeqGet
  \/ PutFullReadHead
  \/ PutFullReadTail
  \/ PutFail
  \/ PutEnter
  \/ PutOffset
  \/ PutCopy
  \/ PutIncRead
  \/ PutIncWrite
  \/ PutRet
  \/ GetEmptyReadHead
  \/ GetEmptyReadTail
  \/ GetFail
  \/ GetEnter
  \/ GetOffset
  \/ GetCopy
  \/ GetIncRead
  \/ GetIncWrite
  \/ GetRet

Spec == Init /\ [][Next]_vars

\* SpecPreempt: main initialises the buffer before the first interrupt; then
\* the consumer calls ring_buffer_get from normal context, and the receive
\* interrupt may arrive between any two steps of it and then runs
\* ring_buffer_put to completion before the consumer goes on.
NextPreempt ==
  \/ buf = NULL /\ Quiet /\ InitCall
  \/ HwReceive
  \/ UART_READ_interrupt /\ Unobserved
  \/ PutFullReadHead
  \/ PutFullReadTail
  \/ PutFail
  \/ PutEnter
  \/ PutOffset
  \/ PutCopy
  \/ PutIncRead
  \/ PutIncWrite
  \/ PutRet
  \/ ppc = "idle" /\ GetCall /\ Unobserved
  \/ ppc = "idle" /\ GetEmptyReadHead
  \/ ppc = "idle" /\ GetEmptyReadTail
  \/ ppc = "idle" /\ GetFail
  \/ ppc = "idle" /\ GetEnter
  \/ ppc = "idle" /\ GetOffset
  \/ ppc = "idle" /\ GetCopy
  \/ ppc = "idle" /\ GetIncRead
  \/ ppc = "idle" /\ GetIncWrite
  \/ ppc = "idle" /\ GetRet

SpecPreempt == Init /\ [][NextPreempt]_vars

\* n is a power of two that is >= 1.
IsPowerOfTwo(n) == \E k \in 0 .. CursorBits : n = 2 ^ k

\* Why a call of ring_buffer_init with argument a has to fail, if it has to.
InitCause(a) ==
  IF a.isnull THEN "NullAttr"
  ELSE IF a.buffer = NULL THEN "NullBuffer"
  ELSE IF ~IsPowerOfTwo(a.n_elem) THEN "InvalidCapacity"
  ELSE "None"

\* SpecInit: ring_buffer_init is called with every argument, again and again,
\* and what it returned for which cause is collected in init_results.
InitProbe ==
  \E a \in Attrs :
    /\ ring_buffer_init(a)
    /\ init_results' =
         init_results \cup {[cause |-> InitCause(a), err |-> last'.err]}

SpecInit == Init /\ [][InitProbe]_vars

-----------------------------------------------------------------------------
(* The UART functions around the ring buffer *)

\* (int) c for a char c holding the byte b.
CharToInt_unsigned(b) == b

CharToInt(b) == IF char_signed /\ b >= 128 THEN b - 256 ELSE b

\* The byte a char or uchar holds after an int c is stored into it.
ToByte(c) == c % 256

\* The arguments uart_putchar is called with in the model.
TxArgs == {66, 256}

\* No function is running.
Idle == Quiet /\ upc = "idle" /\ tpc = "idle"

\* UART_READ_interrupt with the flag clear: nothing happens.
IsrNoFlag ==
  /\ ppc = "idle"
  /\ ReadInterruptControlFlag = 0
  /\ last' = Result("isr", 0)
  /\ UNCHANGED <<ring, uart, gdata, ppc, p_locals, cpc, c_locals, entry, ghosts,
                 init_results, ext>>

\* uart_getchar: int retval = -1; char c = -1; and the call ring_buffer_get(&c).
UartGetcharCall ==
  /\ upc = "idle"
  /\ cpc = "idle"
  /\ upc' = "get"
  /\ gdata' = 255
  /\ cpc' = "g_empty"
  /\ UNCHANGED <<ring, uart, last, ppc, p_locals, c_locals, pending, popped,
                 puts_minus_gets, init_results, tx, char_signed>>

\* uart_getchar: if (ring_buffer_get(&c) == 0) retval = (int) c; return retval;
UartGetcharRet ==
  /\ upc = "get"
  /\ cpc = "idle"
  /\ upc' = "idle"
  /\ last' = Result("getchar", IF last.err = 0 THEN CharToInt(gdata) ELSE -1)
  /\ UNCHANGED <<ring, uart, gdata, ppc, p_locals, cpc, c_locals, entry, ghosts,
                 init_results, tx, char_signed>>

\* The transmitter becomes ready (main: WriteInterruptControlFlag = 1).
HwTxReady ==
  /\ WriteInterruptControlFlag = 0
  /\ WriteInterruptControlFlag' = 1
  /\ UNCHANGED <<ring, uart, gdata, last, ppc, p_locals, cpc, c_locals, entry,
                 ghosts, init_results, UARTOUT, tpc, t_c, upc, char_signed>>

\* uart_putchar(c) is called.
TxCall(c) ==
  /\ tpc = "idle"
  /\ tpc' = "t_wait"
  /\ t_c' = c
  /\ UNCHANGED <<ring, uart, gdata, last, ppc, p_locals, cpc, c_locals, entry,
                 ghosts, init_results, WriteInterruptControlFlag, UARTOUT, upc,
                 char_signed>>

\* while (!WriteInterruptControlFlag); the loop is left when the flag is read
\* set. While it is clear the loop spins and the state does not change.
TxWait_nowait ==
  /\ tpc = "t_wait"
  /\ tpc' = "t_write"
  /\ UNCHANGED <<ring, uart, gdata, last, ppc, p_locals, cpc, c_locals, entry,
                 ghosts, init_results, WriteInterruptControlFlag, UARTOUT, t_c,
                 upc, char_signed>>

TxWait ==
  /\ tpc = "t_wait"
  /\ WriteInterruptControlFlag # 0
  /\ tpc' = "t_write"
  /\ UNCHANGED <<ring, uart, gdata, last, ppc, p_locals, cpc, c_locals, entry,
                 ghosts, init_results, WriteInterruptControlFlag, UARTOUT, t_c,
                 upc, char_signed>>

\* *UART_WRITE_ADDR = (char) c;
TxWrite_rx ==
  /\ tpc = "t_write"
  /\ UARTIN' = ToByte(t_c)
  /\ tpc' = "t_clear"
  /\ UNCHANGED <<ring, ReadInterruptControlFlag, gdata, last, ppc, p_locals, cpc,
                 c_locals, entry, ghosts, init_results,
                 WriteInterruptControlFlag, UARTOUT, t_c, upc, char_signed>>

TxWrite ==
  /\ tpc = "t_write"
  /\ UARTOUT' = ToByte(t_c)
  /\ tpc' = "t_clear"
  /\ UNCHANGED <<ring, uart, gdata, last, ppc, p_locals, cpc, c_locals, entry,
                 ghosts, init_results, WriteInterruptControlFlag, t_c, upc,
                 char_signed>>

\* WriteInterruptControlFlag = 0;
TxClear ==
  /\ tpc = "t_clear"
  /\ WriteInterruptControlFlag' = 0
  /\ tpc' = "t_ret"
  /\ UNCHANGED <<ring, uart, gdata, last, ppc, p_locals, cpc, c_locals, entry,
                 ghosts, init_results, UARTOUT, t_c, upc, char_signed>>

\* return 0;
TxRet ==
  /\ tpc = "t_ret"
  /\ tpc' = "idle"
  /\ last' = Result("putchar", 0)
  /\ t_c' = 0
  /\ UNCHANGED <<ring, uart, gdata, ppc, p_locals, cpc, c_locals, entry, ghosts,
                 init_results, WriteInterruptControlFlag, UARTOUT, upc,
                 char_signed>>

\* SpecUart: the receive path as main drives it, one function at a time: the
\* buffer is initialised once, bytes arrive and raise the receive interrupt,
\* UART_READ_interrupt runs, and uart_getchar is called.
NextUart ==
  \/ buf = NULL /\ Idle /\ InitCall
  \/ Idle /\ HwReceive
  \/ Idle /\ UART_READ_interrupt /\ entry' = Snapshot /\ UNCHANGED <<ref, ref_last>>
  \/ Idle /\ IsrNoFlag
  \/ PutFullReadHead
  \/ PutFullReadTail
  \/ PutFail
  \/ PutEnter
  \/ PutOffset
  \/ PutCopy
  \/ PutIncRead
  \/ PutIncWrite
  \/ PutRet
  \/ Idle /\ UartGetcharCall /\ entry' = Snapshot /\ UNCHANGED <<ref, ref_last>>
  \/ GetEmptyReadHead
  \/ GetEmptyReadTail
  \/ GetFail
  \/ GetEnter
  \/ GetOffset
  \/ GetCopy
  \/ GetIncRead
  \/ GetIncWrite
  \/ GetRet
  \/ UartGetcharRet

SpecUart == InitBuild /\ [][NextUart]_vars

\* SpecTx: the transmit path beside the receive interrupt: the buffer is
\* initialised once, bytes arrive and UART_READ_interrupt stores them, the
\* transmitter becomes ready at any time, and uart_putchar is called. Once
\* called, uart_putchar keeps running.
TxStep == TxWait \/ TxWrite \/ TxClear \/ TxRet

NextTx ==
  \/ buf = NULL /\ Idle /\ InitCall
  \/ Idle /\ HwReceive
  \/ HwTxReady
  \/ Idle /\ UART_READ_interrupt /\ Unobserved
  \/ PutFullReadHead
  \/ PutFullReadTail
  \/ PutFail
  \/ PutEnter
  \/ PutOffset
  \/ PutCopy
  \/ PutIncRead
  \/ PutIncWrite
  \/ PutRet
  \/ \E c \in TxArgs : Idle /\ TxCall(c)
  \/ TxWait
  \/ TxWrite
  \/ TxClear
  \/ TxRet

SpecTx == Init /\ [][NextTx]_vars /\ WF_vars(TxStep)

-----------------------------------------------------------------------------
(* Producer and consumer interleaved access by access *)

\* SpecConc: after main has initialised the buffer, one producer calls
\* ring_buffer_put and one consumer calls ring_buffer_get, and the accesses of
\* the two calls to head, tail and the storage interleave in any order.
ConsumerStep ==
  \/ GetCall /\ Unobserved
  \/ GetEmptyReadHead
  \/ GetEmptyReadTail
  \/ GetFail
  \/ GetEnter
  \/ GetOffset
  \/ GetCopy
  \/ GetIncRead
  \/ GetIncWrite
  \/ GetRet

NextConc ==
  \/ buf = NULL /\ Quiet /\ InitCall
  \/ \E d \in Bytes : PutCall(d) /\ Unobserved
  \/ PutFullReadHead
  \/ PutFullReadTail
  \/ PutFail
  \/ PutEnter
  \/ PutOffset
  \/ PutCopy
  \/ PutIncRead
  \/ PutIncWrite
  \/ PutRet
  \/ GetCall /\ Unobserved
  \/ GetEmptyReadHead
  \/ GetEmptyReadTail
  \/ GetFail
  \/ GetEnter
  \/ GetOffset
  \/ GetCopy
  \/ GetIncRead
  \/ GetIncWrite
  \/ GetRet

SpecConc == Init /\ [][NextConc]_vars

\* SpecLive: the same with a producer that puts the byte 'A' of main, where
\* the consumer keeps calling ring_buffer_get and every call of it runs on (a
\* step of the consumer is always possible).
LiveBytes == {65}

NextLive ==
  \/ buf = NULL /\ Quiet /\ InitCall
  \/ \E d \in LiveBytes : PutCall(d) /\ Unobserved
  \/ PutFullReadHead
  \/ PutFullReadTail
  \/ PutFail
  \/ PutEnter
  \/ PutOffset
  \/ PutCopy
  \/ PutIncRead
  \/ PutIncWrite
  \/ PutRet
  \/ GetCall /\ Unobserved
  \/ GetEmptyReadHead
  \/ GetEmptyReadTail
  \/ GetFail
  \/ GetEnter
  \/ GetOffset
  \/ GetCopy
  \/ GetIncRead
  \/ GetIncWrite
  \/ GetRet

SpecLive == Init /\ [][NextLive]_vars /\ WF_vars(ConsumerStep)

-----------------------------------------------------------------------------
(* Properties *)

\* head - tail as the C expression computes it.
Distance == (head - tail + UintMod) % UintMod

\* The slots from tail up to head hold the pending bytes, oldest first.
LiveSlots ==
  /\ Len(pending) = Distance
  /\ \A i \in 1 .. Len(pending) :
       pending[i] = mem[Offset((tail + i - 1) % UintMod, n_elem)]

\* C1: FIFO order. Every successful ring_buffer_get returns the oldest byte
\* that a successful ring_buffer_put accepted and no get returned yet, and
\* between calls the slots from tail to head hold exactly the accepted bytes not
\* yet returned, in the order they were accepted: nothing is lost, duplicated
\* or reordered.
C1_FifoOrder ==
  /\ (Quiet /\ last.op = "get" /\ last.err = 0) => gdata = popped
  /\ Quiet => LiveSlots

C1_Witness ==
  /\ Quiet
  /\ last.op = "get"
  /\ last.err = 0
  /\ gdata = popped
  /\ n_elem = 4
  /\ Len(pending) = 3
  /\ pending[1] # pending[2]

\* C2: after a successful init, successful puts minus successful gets equals
\* head - tail (unsigned, wrapping), lies in 0 .. n_elem, is 0 exactly when
\* ring_buffer_empty answers 1 and n_elem exactly when ring_buffer_full
\* answers 1.
C2_Count ==
  buf = MEM =>
    /\ puts_minus_gets = Distance
    /\ puts_minus_gets \in 0 .. n_elem
    /\ (puts_minus_gets = 0) <=> (ring_buffer_empty(head, tail) = 1)
    /\ (puts_minus_gets = n_elem) <=> (ring_buffer_full(head, tail, n_elem) = 1)

C2_Witness ==
  /\ buf = MEM
  /\ n_elem = 4
  /\ puts_minus_gets = 4
  /\ head < tail
  /\ ring_buffer_full(head, tail, n_elem) = 1

\* C3: preemption safety. When the receive interrupt runs ring_buffer_put to
\* completion between any two steps of ring_buffer_get, head - tail stays in
\* 0 .. n_elem in every state, and a get that is about to return success has
\* copied the oldest accepted byte not yet returned.
C3_Preempt ==
  /\ Distance \in 0 .. n_elem
  /\ cpc = "g_ret" => gdata = popped

\* The consumer is between its computation of the offset and its memcpy, and
\* the interrupt, which arrived there, has just filled the buffer, with head
\* overflowed.
C3_Witness ==
  /\ cpc = "g_copy"
  /\ ppc = "p_ret"
  /\ n_elem = 4
  /\ Distance = n_elem
  /\ head < tail

\* C4: full detection. ring_buffer_put returns -1 if and only if head - tail
\* was n_elem when it was called, and then head, tail and every storage slot
\* are as they were.
C4_FullDetection ==
  (Quiet /\ last.op = "put") =>
    /\ (last.err = -1) <=>
         ((entry.head - entry.tail + UintMod) % UintMod = n_elem)
    /\ last.err \in {0, -1}
    /\ last.err = -1 => (head = entry.head /\ tail = entry.tail /\ mem = entry.mem)

C4_Witness ==
  /\ Quiet
  /\ last.op = "put"
  /\ last.err = -1
  /\ n_elem = 4
  /\ Len(pending) = 4

\* C5: empty detection. ring_buffer_get returns -1 if and only if head - tail
\* was 0 when it was called, and then head, tail, the storage and the caller's
\* byte are as they were.
C5_EmptyDetection ==
  (Quiet /\ last.op = "get") =>
    /\ (last.err = -1) <=> ((entry.head - entry.tail + UintMod) % UintMod = 0)
    /\ last.err \in {0, -1}
    /\ last.err = -1 =>
         /\ head = entry.head
         /\ tail = entry.tail
         /\ mem = entry.mem
         /\ gdata = entry.gdata

\* A get fails on a buffer that was used and drained.
C5_Witness ==
  /\ Quiet
  /\ last.op = "get"
  /\ last.err = -1
  /\ buf = MEM
  /\ n_elem = 4
  /\ head = 5
  /\ gdata = 65

\* C6: no slot is sacrificed. A put fails only when n_elem bytes are pending,
\* so n_elem puts in a row on an empty buffer all succeed; never more than
\* n_elem bytes are pending, and the pending bytes sit in the slots from tail
\* to head, from where the gets return them in order.
C6_NoSlotSacrificed ==
  /\ Len(pending) <= n_elem
  /\ (Quiet /\ last.op = "put" /\ last.err = -1) => Len(pending) = n_elem
  /\ (Quiet /\ last.op = "put" /\ last.err = 0) =>
       (Len(pending) >= 1 /\ LiveSlots)

\* Four puts in a row since init, no get: four bytes pending with capacity 4.
C6_Witness ==
  /\ Quiet
  /\ last.op = "put"
  /\ last.err = 0
  /\ n_elem = 4
  /\ tail = 0
  /\ head = 4
  /\ puts_minus_gets = 4
  /\ Len(pending) = 4

\* C7: wraparound. With cursors that overflow modulo 2^CursorBits, every put
\* and get answers as a reference FIFO queue of the same capacity does: the
\* same success or failure, and for a get the same byte.
C7_Wraparound ==
  (Quiet /\ last.op \in {"put", "get"}) =>
    /\ last.err = ref_last.err
    /\ (last.op = "get" /\ last.err = 0) => gdata = ref_last.val
    /\ ref = pending

\* A get succeeds while head has overflowed and tail has not.
C7_Witness ==
  /\ Quiet
  /\ last.op = "get"
  /\ last.err = 0
  /\ gdata = ref_last.val
  /\ n_elem = 4
  /\ head < tail
  /\ Len(ref) = 3

\* C8: init validation. ring_buffer_init succeeds if and only if its
\* argument and the storage reference are not null and the capacity is a
\* power of two that is >= 1.
C8_InitValidation ==
  last.op = "init" =>
    ((last.err = 0) <=>
       (/\ ~last.attr.isnull
        /\ last.attr.buffer # NULL
        /\ IsPowerOfTwo(last.attr.n_elem)))

\* C9: init effect. After a successful ring_buffer_init head and tail are 0,
\* the buffer is empty and it is not full.
C9_InitEffect ==
  (last.op = "init" /\ last.err = 0) =>
    /\ head = 0
    /\ tail = 0
    /\ ring_buffer_empty(head, tail) = 1
    /\ ring_buffer_full(head, tail, n_elem) = 0

\* C10 as stated: an absent storage reference and a capacity that is not a
\* power of two are reported by values that differ.
C10_Distinguishable ==
  \A p, q \in init_results :
    (p.cause = "NullBuffer" /\ q.cause = "InvalidCapacity" /\ p.err # 0 /\ q.err # 0)
      => p.err # q.err

\* C10 as amended: ring_buffer_init has one failure value. Whenever it fails,
\* for an absent argument, an absent storage reference or a capacity it
\* rejects, it returns -1, and it returns 0 when it succeeds; an absent
\* argument or storage reference always fails.
C10_SingleFailureValue ==
  \A p \in init_results :
    /\ p.err \in {0, -1}
    /\ p.cause \in {"NullAttr", "NullBuffer"} => p.err = -1
    /\ p.cause = "None" => p.err = 0

\* Both causes have been seen, each reported as -1.
C10_Witness ==
  /\ [cause |-> "NullBuffer", err |-> -1] \in init_results
  /\ [cause |-> "InvalidCapacity", err |-> -1] \in init_results

\* C11: uart_getchar returns the buffered byte when ring_buffer_get succeeds
\* and -1 only when the buffer was empty: after a call on a buffer that was
\* not empty the value returned is not -1 and is the byte taken (modulo 256),
\* and after a call on an empty buffer it is -1.
C11_Getchar ==
  (Idle /\ last.op = "getchar") =>
    IF entry.head # entry.tail
      THEN last.err # -1 /\ (last.err + 256) % 256 = popped
      ELSE last.err = -1

\* C12: the receive event. UART_READ_interrupt calls ring_buffer_put only
\* when the flag is set, and clears the flag; when it returns the flag is
\* clear and, if the buffer was not full, exactly the byte that was in UARTIN
\* has been stored at the slot of head and head is one more, else the byte is
\* dropped and head, tail and the storage are as before; with the flag clear
\* nothing but the record of the last call changes.
C12_ReceiveEvent ==
  [][/\ (ppc = "idle" /\ ppc' = "p_full") =>
          (ReadInterruptControlFlag # 0 /\ ReadInterruptControlFlag' = 0)
     /\ (ppc # "idle" /\ ppc' = "idle") =>
          /\ ReadInterruptControlFlag' = 0
          /\ UARTIN' = entry.uartin
          /\ tail' = entry.tail
          /\ IF (entry.head - entry.tail + UintMod) % UintMod # n_elem
               THEN /\ last'.err = 0
                    /\ head' = (entry.head + 1) % UintMod
                    /\ mem' = [entry.mem EXCEPT
                                 ![entry.head % n_elem] = entry.uartin]
                    /\ Len(pending') = Len(pending)
                    /\ pending'[Len(pending')] = entry.uartin
               ELSE /\ last'.err = -1
                    /\ head' = entry.head
                    /\ mem' = entry.mem
     /\ (last'.op = "isr" /\ last.op # "isr") =>
          /\ ReadInterruptControlFlag = 0
          /\ UNCHANGED <<ring, uart, gdata, ppc, cpc, pending>>
    ]_vars

\* The interrupt found the buffer full: the byte that had arrived is dropped.
C12_Witness ==
  /\ Idle
  /\ last.op = "put"
  /\ last.err = -1
  /\ entry.flag = 1
  /\ ReadInterruptControlFlag = 0
  /\ n_elem = 4
  /\ Distance = 4
  /\ mem = entry.mem

\* C13: the transmit path is isolated. Every step of uart_putchar leaves head,
\* tail, n_elem, buf, the storage, the read-ready flag and UARTIN unchanged;
\* its write stores the byte of its argument in UARTOUT and its next step
\* clears the write-ready flag.
C13_TransmitIsolation ==
  [][tpc' # tpc =>
       /\ UNCHANGED <<head, tail, n_elem, buf, mem, ReadInterruptControlFlag,
                      UARTIN, pending>>
       /\ tpc = "t_write" => UARTOUT' = t_c % 256
       /\ tpc # "t_write" => UARTOUT' = UARTOUT
       /\ tpc = "t_clear" => WriteInterruptControlFlag' = 0
       /\ tpc # "t_clear" => WriteInterruptControlFlag' = WriteInterruptControlFlag
    ]_vars

\* uart_putchar(66) has returned while two bytes are buffered and a third
\* is waiting in UARTIN.
C13_Witness ==
  /\ tpc = "idle"
  /\ last.op = "putchar"
  /\ UARTOUT = 66
  /\ WriteInterruptControlFlag = 0
  /\ ReadInterruptControlFlag = 1
  /\ Len(pending) = 2

\* C14: the transmit handshake. uart_putchar leaves its wait loop, and writes
\* UARTOUT, only while the write-ready flag is set, so it never returns if the
\* flag is never set; and once the flag is set while it waits, it goes on to
\* write the byte and clear the flag, and then returns.
C14_TransmitHandshake ==
  /\ [][/\ (tpc = "t_wait" /\ tpc' # "t_wait") => WriteInterruptControlFlag # 0
        /\ UARTOUT' # UARTOUT =>
             (tpc = "t_write" /\ WriteInterruptControlFlag # 0)
       ]_vars
  /\ [](tpc \in {"t_write", "t_clear"} => WriteInterruptControlFlag # 0)
  /\ (tpc = "t_wait" /\ WriteInterruptControlFlag # 0) ~>
       (tpc = "t_ret" /\ WriteInterruptControlFlag = 0 /\ UARTOUT = t_c % 256)
  /\ (tpc = "t_ret") ~> (tpc = "idle" /\ last.op = "putchar")

\* uart_putchar(256) has written the byte 0 over an earlier 66 and cleared
\* the flag.
C14_Witness ==
  /\ tpc = "t_ret"
  /\ t_c = 256
  /\ UARTOUT = 0
  /\ WriteInterruptControlFlag = 0
  /\ last.op = "putchar"

\* C15: single-writer frame. No step of ring_buffer_put changes tail, n_elem
\* or buf; a step of it changes head by nothing or by exactly one, and the
\* storage at no slot other than head mod n_elem. No step of ring_buffer_get
\* changes head, the storage, n_elem or buf; a step of it changes tail by
\* nothing or by exactly one. A successful put returns with head one more
\* than at its call and at most that one slot changed, a successful get with
\* tail one more than at its call.
C15_SingleWriter ==
  [][/\ ppc' # ppc =>
          /\ UNCHANGED <<tail, n_elem, buf>>
          /\ head' \in {head, (head + 1) % UintMod}
          /\ \A i \in DOMAIN mem :
               mem'[i] # mem[i] => (n_elem # 0 /\ i = head % n_elem)
     /\ cpc' # cpc =>
          /\ UNCHANGED <<head, mem, n_elem, buf>>
          /\ tail' \in {tail, (tail + 1) % UintMod}
     /\ (ppc = "p_ret" /\ ppc' = "idle") =>
          /\ head = (entry.head + 1) % UintMod
          /\ tail = entry.tail
          /\ \A i \in DOMAIN mem :
               mem[i] # entry.mem[i] => i = entry.head % n_elem
     /\ (cpc = "g_ret" /\ cpc' = "idle") =>
          /\ tail = (entry.tail + 1) % UintMod
          /\ head = entry.head
          /\ mem = entry.mem
    ]_vars

\* A successful get of a buffer of capacity 4 whose cursors have overflowed has
\* moved tail alone, and bytes are still buffered.
C15_Witness ==
  /\ Quiet
  /\ last.op = "get"
  /\ last.err = 0
  /\ n_elem = 4
  /\ tail = (entry.tail + 1) % UintMod
  /\ head = entry.head
  /\ head < tail
  /\ mem = entry.mem
  /\ Len(pending) >= 2

\* C18: in-bounds access. Whenever put or get is about to access the storage,
\* the storage is there, the capacity is not 0, and the index is less than the
\* capacity and is the cursor modulo the capacity, also after the cursor has
\* overflowed.
C18_InBounds ==
  /\ ppc = "p_copy" =>
       /\ buf = MEM
       /\ n_elem >= 1
       /\ p_off < n_elem
       /\ p_off = head % n_elem
       /\ p_off \in DOMAIN mem
  /\ cpc = "g_copy" =>
       /\ buf = MEM
       /\ n_elem >= 1
       /\ c_off < n_elem
       /\ c_off = tail % n_elem
       /\ c_off \in DOMAIN mem

\* get reads the last slot of a buffer of capacity 4 after head has
\* overflowed.
C18_Witness ==
  /\ cpc = "g_copy"
  /\ n_elem = 4
  /\ c_off = 3
  /\ tail = UintMod - 1
  /\ head < tail

\* C19: a ring_buffer_init that fails leaves head, tail, n_elem, buf, the
\* storage and the buffered bytes as they were.
C19_FailedInitNoEffect ==
  [][(Quiet /\ Quiet' /\ last'.op = "init" /\ last'.err # 0) =>
       UNCHANGED <<head, tail, n_elem, buf, mem, pending>>]_vars

\* An init was refused while two bytes were buffered across the overflow of
\* head, and they are still buffered.
C19_Witness ==
  /\ Quiet
  /\ last.op = "init"
  /\ last.err = -1
  /\ Len(pending) = 2
  /\ head < tail
  /\ LiveSlots

\* C16: slot safety when the accesses of one put and one get interleave in
\* any order. From its memcpy until it has incremented head the producer's
\* slot is the slot of head and holds no unread byte, and when it increments
\* head the byte is already in the slot; when the consumer copies, and until it
\* has incremented tail, its slot is the slot of tail, that slot has been
\* written and it holds the oldest accepted byte, which the consumer has got
\* before it increments tail.
C16_SlotSafety ==
  /\ ppc \in {"p_copy", "p_inc_rd", "p_inc_wr"} =>
       /\ p_off = head % n_elem
       /\ \A i \in 0 .. Distance - 1 : p_off # (tail + i) % n_elem
  /\ ppc \in {"p_inc_rd", "p_inc_wr"} => mem[p_off] = p_byte
  /\ cpc \in {"g_copy", "g_inc_rd", "g_inc_wr"} =>
       /\ Distance >= 1
       /\ pending # <<>>
       /\ c_off = tail % n_elem
       /\ mem[c_off] = pending[1]
  /\ cpc \in {"g_inc_rd", "g_inc_wr"} => gdata = pending[1]

\* The producer is about to write one slot while the consumer is about to
\* read another, in a buffer of capacity 4 with three bytes unread and head
\* overflowed.
C16_Witness ==
  /\ ppc = "p_copy"
  /\ cpc = "g_copy"
  /\ n_elem = 4
  /\ Distance = 3
  /\ head < tail
  /\ p_off # c_off

\* C17: guard stability. After get has found the buffer not empty it stays
\* not empty until that get has incremented tail, and after put has found it
\* not full it stays not full until that put has incremented head; and the
\* cursors a call has read never show not-empty or not-full when the buffer is
\* empty or full (they can only show empty or full when it no longer is).
C17_GuardStability ==
  /\ cpc \in {"g_off", "g_copy", "g_inc_rd", "g_inc_wr"} => Distance >= 1
  /\ ppc \in {"p_off", "p_copy", "p_inc_rd", "p_inc_wr"} => Distance < n_elem
  /\ (cpc = "g_test" /\ (c_head - c_tail + UintMod) % UintMod # 0) =>
       Distance # 0
  /\ (ppc = "p_test" /\ (p_head - p_tail + UintMod) % UintMod # n_elem) =>
       Distance # n_elem

\* The producer has read cursors that show the buffer full, and the consumer
\* has freed a slot since: the put is going to fail though there is room.
C17_Witness ==
  /\ ppc = "p_test"
  /\ n_elem = 4
  /\ (p_head - p_tail + UintMod) % UintMod = n_elem
  /\ Distance = n_elem - 1
  /\ cpc = "g_ret"

\* C20: no accepted byte is stranded. When the consumer keeps running, a
\* byte b that has been accepted at cursor position h and is not yet read
\* is eventually the byte a successful ring_buffer_get returns, which leaves
\* tail just past h.
C20_Drains ==
  \A h \in 0 .. UintMod - 1 : \A b \in LiveBytes :
    ((h - tail + UintMod) % UintMod < Len(pending)
       /\ pending[((h - tail + UintMod) % UintMod) + 1] = b)
    ~> (cpc = "idle" /\ last.op = "get" /\ last.err = 0 /\ gdata = b
          /\ tail = (h + 1) % UintMod)

\* A get has returned the byte that was accepted at the last cursor
\* position before the overflow, while the producer is in the middle of a put
\* and bytes accepted after the overflow are waiting.
C20_Witness ==
  /\ cpc = "idle"
  /\ last.op = "get"
  /\ last.err = 0
  /\ gdata = 65
  /\ tail = 0
  /\ head > 0
  /\ n_elem = 4
  /\ Len(pending) >= 2
  /\ ppc = "p_inc_wr"

=============================================================================
